---- MODULE Spec2Model ----
(* Token lifecycle of the BlogPost backend: the /register, /login,          *)
(* /refreshToken and /logout handlers of src/routes/MainAuth.js, their      *)
(* middlewares, and verifyAuth of src/middlewares/MainPostsMiddlewares.js.  *)
(* Every handler is cut at its awaits: one action per persistence call and  *)
(* one per continuation that reads the clock, so that requests interleave   *)
(* exactly where the runtime lets them.                                     *)
EXTENDS Integers, FiniteSets, Sequences, TLC

(* ------------------------------------------------------------------ *)
(* Bounds of the model                                                *)
(* ------------------------------------------------------------------ *)
MaxSlots == 2
MaxTicks == 2
MaxJumps == 1
MaxRequests == 4
MaxRegisters == 1
MaxFaults == 1
MaxOverlaps == 1

(* ------------------------------------------------------------------ *)
(* Program constants.  The clock counts half seconds; lifetimes are   *)
(* in seconds, as jsonwebtoken computes them.                          *)
(* ------------------------------------------------------------------ *)
LoginAccessTtl == 900
RefreshAccessTtl == 3600
RefreshTtl == 2592000

RefreshSecret == "refreshTokenSecretKey"
AccessSecret == "jwtsupersecretkey"

Emails == {"a@x.com"}
RegisterPasswords == {"secret1"}
Passwords == {"secret1", "wrong"}
Missing == ""

Slots == 1..MaxSlots

(* ------------------------------------------------------------------ *)
(* jsonwebtoken and bcrypt, by what the handlers rely on               *)
(* ------------------------------------------------------------------ *)
NoToken == [secret |-> "none", user_ID |-> 0, iat |-> 0, exp |-> 0]
Garbage == [secret |-> "garbage", user_ID |-> 0, iat |-> 0, exp |-> 0]
NoUser == [id |-> 0, email |-> "", password |-> ""]
NoRecord == [token |-> NoToken, userId |-> 0, expiresAt |-> 0]

(* Math.floor(Date.now() / 1000) *)
Seconds(t) == t \div 2

(* new Date(Date.now() + 30 * 24 * 60 * 60 * 1000) *)
ExpiresAt(t) == t + 2 * RefreshTtl

(* jwt.sign(payload, secret, {expiresIn}): HS256 is deterministic, the   *)
(* token string is determined by the payload, iat (whole seconds), exp   *)
(* and the secret.                                                       *)
JwtSign(uid, secret, ttl, t) ==
    [secret |-> secret, user_ID |-> uid, iat |-> Seconds(t), exp |-> Seconds(t) + ttl]

(* jwt.verify that forgets the exp claim *)
JwtVerifyNoExpiry(tok, secret, t) == tok.secret = secret

(* jwt.verify(token, secret): throws on a bad signature and when the     *)
(* clock in whole seconds has reached exp.                               *)
JwtVerify(tok, secret, t) ==
    /\ tok.secret = secret
    /\ Seconds(t) < tok.exp

BcryptHash(pw) == <<"bcrypt", pw>>
BcryptCompare(pw, hash) == hash = BcryptHash(pw)

(* process.env.JWT_SECRET || "jwtsupersecretkey" *)
JWT_SECRET(env) == IF env = "" THEN AccessSecret ELSE env

EnvSecrets == {"", "prodsecret"}

(* ------------------------------------------------------------------ *)
(* Responses                                                          *)
(* ------------------------------------------------------------------ *)
NoCode == 0
NoResp == [status |-> 0, bstatus |-> "", message |-> "", code |-> NoCode,
           user |-> NoUser, accessToken |-> NoToken, refreshToken |-> NoToken,
           setAccess |-> NoToken, setRefresh |-> NoToken]

PlainError(st, msg) ==
    [NoResp EXCEPT !.status = st, !.bstatus = "error", !.message = msg]

ErrorResp(st, msg) ==
    [NoResp EXCEPT !.status = st, !.bstatus = "error", !.message = msg, !.code = st]

(* getUserByEmail's answer to an unknown email, and the login handler's  *)
(* answer to a wrong password                                            *)
UserNotFound == ErrorResp(401, "User doesn't exist")
PasswordIncorrect == ErrorResp(401, "Password is incorrect")

TokenResp(msg, access, refresh) ==
    [NoResp EXCEPT !.status = 200, !.bstatus = "success", !.message = msg,
                   !.accessToken = access, !.refreshToken = refresh,
                   !.setAccess = access, !.setRefresh = refresh]

VARIABLES
    now,            \* Date.now() in ticks
    envSecret,      \* process.env.JWT_SECRET ("" when unset)
    users,          \* table User
    refreshTokens,  \* table RefreshToken
    req,            \* the requests in flight and their last answers
    sent,           \* refresh tokens delivered to clients
    sentAccess,     \* access tokens delivered by login, with the principal
    consumed,       \* refresh tokens a Refresh answered 200 has consumed
    revoked,        \* refresh tokens a logout answered 200 has presented
    nreq,           \* requests started
    nreg,           \* register requests that have ended
    nfault,         \* persistence faults injected
    noverlap,       \* requests started while another one was in flight
    posts,          \* table Post
    postSeq         \* the last id the autoincrement of Post has given out

vars == <<now, envSecret, users, refreshTokens, req, sent, sentAccess,
          consumed, revoked, nreq, nreg, nfault, noverlap, posts, postSeq>>

Idle == [kind |-> "idle", pc |-> "idle", email |-> "", password |-> "",
         cookie |-> NoToken, foundUser |-> NoUser, storedToken |-> NoRecord,
         newAccess |-> NoToken, newRefresh |-> NoToken, expiresAt |-> 0,
         resp |-> NoResp, reqUser |-> NoToken, at |-> "",
         wasConsumed |-> FALSE, wasRevoked |-> FALSE, sigExpired |-> FALSE,
         recExpired |-> FALSE, storedOk |-> FALSE, raced |-> FALSE,
         found |-> FALSE,
         id |-> 0, title |-> <<>>, content |-> "", counter |-> 0,
         postIds |-> <<>>, action |-> "", validPostIds |-> {}]

Finished(r) == req[r].pc \in {"idle", "done", "hung"}
InFlight(r) == ~Finished(r)

Init ==
    /\ now = 0
    /\ envSecret \in EnvSecrets
    /\ users = {}
    /\ refreshTokens = {}
    /\ req = [r \in Slots |-> Idle]
    /\ sent = {}
    /\ sentAccess = {}
    /\ consumed = {}
    /\ revoked = {}
    /\ nreq = 0
    /\ nreg = 0
    /\ nfault = 0
    /\ noverlap = 0
    /\ posts = {}
    /\ postSeq = 0

(* ------------------------------------------------------------------ *)
(* The clock                                                          *)
(* ------------------------------------------------------------------ *)
ClockOk(n) ==
    /\ n \div (2 * RefreshTtl) <= MaxJumps
    /\ n % (2 * RefreshTtl) <= MaxTicks

Tick ==
    /\ ClockOk(now + 1)
    /\ now' = now + 1
    /\ UNCHANGED <<posts, postSeq, envSecret, users, refreshTokens, req, sent, sentAccess,
                   consumed, revoked, nreq, nreg, nfault, noverlap>>

Jump ==
    /\ ClockOk(now + 2 * RefreshTtl)
    /\ now' = now + 2 * RefreshTtl
    /\ UNCHANGED <<posts, postSeq, envSecret, users, refreshTokens, req, sent, sentAccess,
                   consumed, revoked, nreq, nreg, nfault, noverlap>>

(* ------------------------------------------------------------------ *)
(* Persistence (Prisma) operations                                    *)
(* ------------------------------------------------------------------ *)
FindUserByEmail(email) ==
    IF \E u \in users : u.email = email
    THEN CHOOSE u \in users : u.email = email
    ELSE NoUser

FindUserById(id) ==
    IF \E u \in users : u.id = id
    THEN CHOOSE u \in users : u.id = id
    ELSE NoUser

FindToken(tok) ==
    IF \E x \in refreshTokens : x.token = tok
    THEN CHOOSE x \in refreshTokens : x.token = tok
    ELSE NoRecord

DeleteManyByUser(uid) == {x \in refreshTokens : x.userId # uid}
DeleteByToken(tok) == {x \in refreshTokens : x.token # tok}

(* ------------------------------------------------------------------ *)
(* Bookkeeping shared by the handlers                                 *)
(* ------------------------------------------------------------------ *)
(* A handler that has answered, or that threw out of its async body,   *)
(* keeps nothing but its inputs and its answer: its locals are dead.   *)
Settle(q) ==
    [q EXCEPT !.foundUser = NoUser, !.storedToken = NoRecord,
              !.newAccess = NoToken, !.newRefresh = NoToken, !.expiresAt = 0,
              !.title = <<>>, !.content = "", !.counter = 0,
              !.postIds = <<>>, !.action = "", !.validPostIds = {}]

Answer(r, resp) == Settle([req[r] EXCEPT !.pc = "done", !.resp = resp])

(* An error thrown inside an async handler is a rejected promise that    *)
(* Express 4 does not observe: index.js only logs the unhandledRejection *)
(* and the request is never answered.                                    *)
Throw(r) == Settle([req[r] EXCEPT !.pc = "hung", !.at = req[r].pc])

Fresh(kind, pc) == [Idle EXCEPT !.kind = kind, !.pc = pc]

(* A new request takes the first free slot. *)
FreeSlot(r) ==
    /\ Finished(r)
    /\ \A o \in Slots : o < r => InFlight(o)

Busy == \E o \in Slots : InFlight(o)

Overlap ==
    /\ Busy => noverlap < MaxOverlaps
    /\ noverlap' = IF Busy THEN noverlap + 1 ELSE noverlap

CanStart(r) ==
    /\ FreeSlot(r)
    /\ nreq < MaxRequests
    /\ Overlap

Cookies == sent \cup {NoToken, Garbage}

(* The answers of the finished requests are collected when the next     *)
(* request arrives; q is the state of the arriving request r after its   *)
(* synchronous prefix.                                                   *)
Arrive(r, q) ==
    [o \in Slots |-> IF o = r THEN q ELSE IF Finished(o) THEN Idle ELSE req[o]]

(* Only a request that reaches the persistence layer counts.            *)
Count(q) == nreq' = IF q.pc = "done" THEN nreq ELSE nreq + 1

(* ------------------------------------------------------------------ *)
(* POST /register                                                     *)
(* ------------------------------------------------------------------ *)
(* No register request arrives once MaxRegisters of them have ended.     *)
StartRegister(r, email, pw) ==
    /\ FreeSlot(r)
    /\ Overlap
    /\ nreg < MaxRegisters
    /\ nreg' = IF pw = Missing THEN nreg + 1 ELSE nreg
    /\ LET q == [Fresh("register", "r_check") EXCEPT !.email = email, !.password = pw]
       IN  req' = Arrive(r,
                IF pw = Missing
                THEN [q EXCEPT !.pc = "done", !.resp = ErrorResp(400, "All fields are required")]
                ELSE q)
    /\ UNCHANGED <<posts, postSeq, now, envSecret, users, refreshTokens, sent, sentAccess,
                   consumed, revoked, nreq, nfault>>

RegisterCheck(r) ==
    /\ req[r].pc = "r_check"
    /\ req' = [req EXCEPT ![r] =
            IF FindUserByEmail(req[r].email) # NoUser
            THEN Answer(r, ErrorResp(409, "User with that email already exists"))
            ELSE [req[r] EXCEPT !.pc = "r_create"]]
    /\ nreg' = IF FindUserByEmail(req[r].email) # NoUser THEN nreg + 1 ELSE nreg
    /\ UNCHANGED <<posts, postSeq, now, envSecret, users, refreshTokens, sent, sentAccess,
                   consumed, revoked, nreq, nfault, noverlap>>

RegisterCreate(r) ==
    /\ req[r].pc = "r_create"
    /\ IF FindUserByEmail(req[r].email) # NoUser
       THEN /\ req' = [req EXCEPT ![r] = Throw(r)]
            /\ UNCHANGED users
       ELSE LET newUser == [id |-> Cardinality(users) + 1, email |-> req[r].email,
                            password |-> BcryptHash(req[r].password)]
            IN  /\ users' = users \cup {newUser}
                /\ req' = [req EXCEPT ![r] = Answer(r,
                        [NoResp EXCEPT !.status = 201, !.bstatus = "success",
                                       !.message = "User registered", !.user = newUser])]
    /\ nreg' = nreg + 1
    /\ UNCHANGED <<posts, postSeq, now, envSecret, refreshTokens, sent, sentAccess,
                   consumed, revoked, nreq, nfault, noverlap>>

(* ------------------------------------------------------------------ *)
(* POST /login                                                        *)
(* ------------------------------------------------------------------ *)
StartLogin(r, email, pw) ==
    /\ CanStart(r)
    /\ LET q == [Fresh("login", "l_find") EXCEPT !.email = email, !.password = pw]
           mine == IF pw = Missing
                   THEN [q EXCEPT !.pc = "done", !.resp = ErrorResp(400, "All fields are required")]
                   ELSE q
       IN  /\ req' = Arrive(r, mine)
           /\ Count(mine)
    /\ UNCHANGED <<posts, postSeq, now, envSecret, users, refreshTokens, sent, sentAccess,
                   consumed, revoked, nreg, nfault>>

(* a login that deletes the refresh tokens of the user before it has    *)
(* compared the password                                                *)
LoginFindDeleting(r) ==
    /\ req[r].pc = "l_find"
    /\ LET user == FindUserByEmail(req[r].email)
       IN  /\ req' = [req EXCEPT ![r] =
                IF user = NoUser
                THEN Answer(r, UserNotFound)
                ELSE IF ~BcryptCompare(req[r].password, user.password)
                THEN [Answer(r, PasswordIncorrect) EXCEPT !.found = TRUE]
                ELSE [req[r] EXCEPT !.pc = "l_delete", !.foundUser = user, !.found = TRUE]]
           /\ refreshTokens' = DeleteManyByUser(user.id)
    /\ UNCHANGED <<posts, postSeq, now, envSecret, users, sent, sentAccess,
                   consumed, revoked, nreq, nreg, nfault, noverlap>>

(* getUserByEmail, then bcrypt.compare *)
LoginFind(r) ==
    /\ req[r].pc = "l_find"
    /\ LET user == FindUserByEmail(req[r].email)
       IN  req' = [req EXCEPT ![r] =
                IF user = NoUser
                THEN Answer(r, UserNotFound)
                ELSE IF ~BcryptCompare(req[r].password, user.password)
                THEN [Answer(r, PasswordIncorrect) EXCEPT !.found = TRUE]
                ELSE [req[r] EXCEPT !.pc = "l_delete", !.foundUser = user, !.found = TRUE]]
    /\ UNCHANGED <<posts, postSeq, now, envSecret, users, refreshTokens, sent, sentAccess,
                   consumed, revoked, nreq, nreg, nfault, noverlap>>

(* a login that clears the whole table *)
LoginDeleteAll(r) ==
    /\ req[r].pc = "l_delete"
    /\ refreshTokens' = {}
    /\ req' = [req EXCEPT ![r].pc = "l_sign"]
    /\ UNCHANGED <<posts, postSeq, now, envSecret, users, sent, sentAccess,
                   consumed, revoked, nreq, nreg, nfault, noverlap>>

LoginDelete(r) ==
    /\ req[r].pc = "l_delete"
    /\ refreshTokens' = DeleteManyByUser(req[r].foundUser.id)
    /\ req' = [req EXCEPT ![r].pc = "l_sign"]
    /\ UNCHANGED <<posts, postSeq, now, envSecret, users, sent, sentAccess,
                   consumed, revoked, nreq, nreg, nfault, noverlap>>

LoginSign(r) ==
    /\ req[r].pc = "l_sign"
    /\ req' = [req EXCEPT ![r] = [@ EXCEPT
            !.pc = "l_create",
            !.newAccess = JwtSign(req[r].foundUser.id, AccessSecret, LoginAccessTtl, now),
            !.newRefresh = JwtSign(req[r].foundUser.id, RefreshSecret, RefreshTtl, now),
            !.expiresAt = ExpiresAt(now)]]
    /\ UNCHANGED <<posts, postSeq, now, envSecret, users, refreshTokens, sent, sentAccess,
                   consumed, revoked, nreq, nreg, nfault, noverlap>>

(* a login that stores every record under the user with id 1 *)
LoginCreateFirstUser(r) ==
    /\ req[r].pc = "l_create"
    /\ IF FindToken(req[r].newRefresh) # NoRecord
       THEN /\ req' = [req EXCEPT ![r] = Throw(r)]
            /\ UNCHANGED <<refreshTokens, sent, sentAccess>>
       ELSE /\ refreshTokens' = refreshTokens \cup
                    {[token |-> req[r].newRefresh, userId |-> 1,
                      expiresAt |-> req[r].expiresAt]}
            /\ req' = [req EXCEPT ![r] =
                    Answer(r, TokenResp("Logged in", req[r].newAccess, req[r].newRefresh))]
            /\ sent' = sent \cup {req[r].newRefresh}
            /\ sentAccess' = sentAccess \cup
                    {[token |-> req[r].newAccess, userId |-> req[r].foundUser.id,
                      by |-> "login"]}
    /\ UNCHANGED <<posts, postSeq, now, envSecret, users, consumed, revoked, nreq, nreg, nfault, noverlap>>

LoginCreate(r) ==
    /\ req[r].pc = "l_create"
    /\ IF FindToken(req[r].newRefresh) # NoRecord
       THEN /\ req' = [req EXCEPT ![r] = Throw(r)]
            /\ UNCHANGED <<refreshTokens, sent, sentAccess>>
       ELSE /\ refreshTokens' = refreshTokens \cup
                    {[token |-> req[r].newRefresh, userId |-> req[r].foundUser.id,
                      expiresAt |-> req[r].expiresAt]}
            /\ req' = [req EXCEPT ![r] =
                    Answer(r, TokenResp("Logged in", req[r].newAccess, req[r].newRefresh))]
            /\ sent' = sent \cup {req[r].newRefresh}
            /\ sentAccess' = sentAccess \cup
                    {[token |-> req[r].newAccess, userId |-> req[r].foundUser.id,
                      by |-> "login"]}
    /\ UNCHANGED <<posts, postSeq, now, envSecret, users, consumed, revoked, nreq, nreg, nfault, noverlap>>

(* ------------------------------------------------------------------ *)
(* POST /refreshToken                                                 *)
(* ------------------------------------------------------------------ *)
Expired(rec, t) == t > rec.expiresAt

(* What /refreshToken demands of a presented token: jwt.verify passes,  *)
(* a record is stored under the token, and the record has not expired.  *)
Redeemable(tok, store, t) ==
    /\ JwtVerify(tok, RefreshSecret, t)
    /\ \E x \in store : x.token = tok /\ ~Expired(x, t)

Racing(r, c) == {o \in Slots \ {r} : InFlight(o) /\ req[o].kind = "refresh" /\ req[o].cookie = c}

StartRefresh(r, c) ==
    /\ CanStart(r)
    /\ c \in Cookies
    /\ LET rec == FindToken(c)
           q == [Fresh("refresh", "f_find") EXCEPT
                    !.cookie = c,
                    !.wasConsumed = c \in consumed,
                    !.wasRevoked = c \in revoked,
                    !.sigExpired = c.secret = RefreshSecret /\ Seconds(now) >= c.exp,
                    !.recExpired = rec # NoRecord /\ Expired(rec, now),
                    !.storedOk = rec # NoRecord /\ ~Expired(rec, now),
                    !.raced = Racing(r, c) # {}]
           mine == IF c = NoToken
                   THEN [q EXCEPT !.pc = "done", !.resp = ErrorResp(401, "No refresh token provided")]
                   ELSE IF ~JwtVerify(c, RefreshSecret, now)
                   THEN [q EXCEPT !.pc = "done", !.resp = ErrorResp(403, "Invalid refresh token")]
                   ELSE q
       IN  /\ req' = [o \in Slots |->
                    IF o \in Racing(r, c) /\ mine.pc = "f_find"
                    THEN [req[o] EXCEPT !.raced = TRUE]
                    ELSE Arrive(r, mine)[o]]
           /\ Count(mine)
    /\ UNCHANGED <<posts, postSeq, now, envSecret, users, refreshTokens, sent, sentAccess,
                   consumed, revoked, nreg, nfault>>

RefreshFind(r) ==
    /\ req[r].pc = "f_find"
    /\ req' = [req EXCEPT ![r] = [@ EXCEPT !.pc = "f_check",
                                           !.storedToken = FindToken(req[r].cookie),
                                           !.found = FindToken(req[r].cookie) # NoRecord]]
    /\ UNCHANGED <<posts, postSeq, now, envSecret, users, refreshTokens, sent, sentAccess,
                   consumed, revoked, nreq, nreg, nfault, noverlap>>

(* a record check that reads expiresAt without looking for a missing   *)
(* record first                                                         *)
RefreshCheckUnguarded(r) ==
    /\ req[r].pc = "f_check"
    /\ req' = [req EXCEPT ![r] =
            IF req[r].storedToken = NoRecord
            THEN Throw(r)
            ELSE IF Expired(req[r].storedToken, now)
            THEN Answer(r, ErrorResp(403, "Refresh token expired or invalid"))
            ELSE [req[r] EXCEPT !.pc = "f_delete"]]
    /\ UNCHANGED <<posts, postSeq, now, envSecret, users, refreshTokens, sent, sentAccess,
                   consumed, revoked, nreq, nreg, nfault, noverlap>>

RefreshCheck(r) ==
    /\ req[r].pc = "f_check"
    /\ req' = [req EXCEPT ![r] =
            IF req[r].storedToken = NoRecord \/ Expired(req[r].storedToken, now)
            THEN Answer(r, ErrorResp(403, "Refresh token expired or invalid"))
            ELSE [req[r] EXCEPT !.pc = "f_delete"]]
    /\ UNCHANGED <<posts, postSeq, now, envSecret, users, refreshTokens, sent, sentAccess,
                   consumed, revoked, nreq, nreg, nfault, noverlap>>

(* prisma.refreshToken.delete throws when no record matches *)
RefreshDelete(r) ==
    /\ req[r].pc = "f_delete"
    /\ IF FindToken(req[r].cookie) = NoRecord
       THEN /\ req' = [req EXCEPT ![r] = Throw(r)]
            /\ UNCHANGED refreshTokens
       ELSE /\ refreshTokens' = DeleteByToken(req[r].cookie)
            /\ req' = [req EXCEPT ![r].pc = "f_sign"]
    /\ UNCHANGED <<posts, postSeq, now, envSecret, users, sent, sentAccess,
                   consumed, revoked, nreq, nreg, nfault, noverlap>>

RefreshSign(r) ==
    /\ req[r].pc = "f_sign"
    /\ req' = [req EXCEPT ![r] = [@ EXCEPT
            !.pc = "f_create",
            !.newRefresh = JwtSign(req[r].cookie.user_ID, RefreshSecret, RefreshTtl, now),
            !.newAccess = JwtSign(req[r].cookie.user_ID, AccessSecret, RefreshAccessTtl, now),
            !.expiresAt = ExpiresAt(now)]]
    /\ UNCHANGED <<posts, postSeq, now, envSecret, users, refreshTokens, sent, sentAccess,
                   consumed, revoked, nreq, nreg, nfault, noverlap>>

RefreshCreate(r) ==
    /\ req[r].pc = "f_create"
    /\ IF FindToken(req[r].newRefresh) # NoRecord
       THEN /\ req' = [req EXCEPT ![r] = Throw(r)]
            /\ UNCHANGED <<refreshTokens, sent, sentAccess, consumed>>
       ELSE /\ refreshTokens' = refreshTokens \cup
                    {[token |-> req[r].newRefresh, userId |-> req[r].cookie.user_ID,
                      expiresAt |-> req[r].expiresAt]}
            /\ req' = [req EXCEPT ![r] =
                    Answer(r, TokenResp("Tokens refreshed", req[r].newAccess, req[r].newRefresh))]
            /\ sent' = sent \cup {req[r].newRefresh}
            /\ sentAccess' = sentAccess \cup
                    {[token |-> req[r].newAccess, userId |-> req[r].cookie.user_ID,
                      by |-> "refresh"]}
            /\ consumed' = consumed \cup {req[r].cookie}
    /\ UNCHANGED <<posts, postSeq, now, envSecret, users, revoked, nreq, nreg, nfault, noverlap>>

(* ------------------------------------------------------------------ *)
(* GET /logout                                                        *)
(* ------------------------------------------------------------------ *)
StartLogout(r, c) ==
    /\ CanStart(r)
    /\ c \in Cookies
    /\ LET rec == FindToken(c)
           q == [Fresh("logout", "o_find") EXCEPT
                    !.cookie = c,
                    !.wasRevoked = c \in revoked,
                    !.sigExpired = c.secret = RefreshSecret /\ Seconds(now) >= c.exp,
                    !.storedOk = rec # NoRecord /\ ~Expired(rec, now)]
           mine == IF c = NoToken
                   THEN [q EXCEPT !.pc = "done", !.resp = ErrorResp(400, "No user is logged in")]
                   ELSE IF ~JwtVerify(c, RefreshSecret, now)
                   THEN [q EXCEPT !.pc = "done", !.resp = ErrorResp(403, "Invalid token")]
                   ELSE q
       IN  /\ req' = Arrive(r, mine)
           /\ Count(mine)
    /\ UNCHANGED <<posts, postSeq, now, envSecret, users, refreshTokens, sent, sentAccess,
                   consumed, revoked, nreg, nfault>>

LogoutFind(r) ==
    /\ req[r].pc = "o_find"
    /\ req' = [req EXCEPT ![r] = [@ EXCEPT !.pc = "o_check",
                                           !.storedToken = FindToken(req[r].cookie),
                                           !.found = FindToken(req[r].cookie) # NoRecord]]
    /\ UNCHANGED <<posts, postSeq, now, envSecret, users, refreshTokens, sent, sentAccess,
                   consumed, revoked, nreq, nreg, nfault, noverlap>>

(* a logout that treats a missing record as nothing left to end *)
LogoutCheckLenient(r) ==
    /\ req[r].pc = "o_check"
    /\ req' = [req EXCEPT ![r].pc = "o_delete"]
    /\ UNCHANGED <<posts, postSeq, now, envSecret, users, refreshTokens, sent, sentAccess,
                   consumed, revoked, nreq, nreg, nfault, noverlap>>

LogoutCheck(r) ==
    /\ req[r].pc = "o_check"
    /\ req' = [req EXCEPT ![r] =
            IF req[r].storedToken = NoRecord \/ Expired(req[r].storedToken, now)
            THEN Answer(r, ErrorResp(403, "Expired or invalid token"))
            ELSE [req[r] EXCEPT !.pc = "o_delete"]]
    /\ UNCHANGED <<posts, postSeq, now, envSecret, users, refreshTokens, sent, sentAccess,
                   consumed, revoked, nreq, nreg, nfault, noverlap>>

(* prisma.refreshToken.deleteMany never throws on zero matches *)
LogoutDelete(r) ==
    /\ req[r].pc = "o_delete"
    /\ refreshTokens' = DeleteByToken(req[r].cookie)
    /\ req' = [req EXCEPT ![r] =
            Answer(r, [NoResp EXCEPT !.status = 200, !.bstatus = "success",
                                     !.message = "User logged out successfully"])]
    /\ revoked' = revoked \cup {req[r].cookie}
    /\ UNCHANGED <<posts, postSeq, now, envSecret, users, sent, sentAccess,
                   consumed, nreq, nreg, nfault, noverlap>>

(* ------------------------------------------------------------------ *)
(* verifyAuth                                                         *)
(* ------------------------------------------------------------------ *)
AccessCookies == {a.token : a \in sentAccess} \cup {NoToken, Garbage}

StartVerify(r, c) ==
    /\ CanStart(r)
    /\ c \in AccessCookies
    /\ LET q == [Fresh("verify", "v_find") EXCEPT
                    !.cookie = c,
                    !.sigExpired = Seconds(now) >= c.exp]
           mine == IF c = NoToken
                   THEN [q EXCEPT !.pc = "done", !.resp = PlainError(401, "Access token required")]
                   ELSE IF c.secret # JWT_SECRET(envSecret)
                   THEN [q EXCEPT !.pc = "done", !.resp = PlainError(401, "Invalid token")]
                   ELSE IF ~JwtVerify(c, JWT_SECRET(envSecret), now)
                   THEN [q EXCEPT !.pc = "done", !.resp = PlainError(401, "Token expired")]
                   ELSE q
       IN  /\ req' = Arrive(r, mine)
           /\ Count(mine)
    /\ UNCHANGED <<posts, postSeq, now, envSecret, users, refreshTokens, sent, sentAccess,
                   consumed, revoked, nreg, nfault>>

(* a verifyAuth that also demands a stored session of the principal *)
VerifyFindSession(r) ==
    /\ req[r].pc = "v_find"
    /\ req' = [req EXCEPT ![r] =
            IF \/ FindUserById(req[r].cookie.user_ID) = NoUser
               \/ {x \in refreshTokens : x.userId = req[r].cookie.user_ID} = {}
            THEN Answer(r, PlainError(401, "User not found"))
            ELSE [req[r] EXCEPT !.pc = "done", !.reqUser = req[r].cookie]]
    /\ UNCHANGED <<posts, postSeq, now, envSecret, users, refreshTokens, sent, sentAccess,
                   consumed, revoked, nreq, nreg, nfault, noverlap>>

VerifyFind(r) ==
    /\ req[r].pc = "v_find"
    /\ req' = [req EXCEPT ![r] =
            IF FindUserById(req[r].cookie.user_ID) = NoUser
            THEN Answer(r, PlainError(401, "User not found"))
            ELSE [req[r] EXCEPT !.pc = "done", !.reqUser = req[r].cookie]]
    /\ UNCHANGED <<posts, postSeq, now, envSecret, users, refreshTokens, sent, sentAccess,
                   consumed, revoked, nreq, nreg, nfault, noverlap>>

(* ------------------------------------------------------------------ *)
(* A persistence call that fails (connection loss, process stop)      *)
(* ------------------------------------------------------------------ *)
Awaiting == {"r_check", "r_create", "l_find", "l_delete", "l_create",
             "f_find", "f_delete", "f_create", "o_find", "o_delete", "v_find"}

DbFault(r) ==
    /\ req[r].pc \in Awaiting
    /\ nfault < MaxFaults
    /\ nfault' = nfault + 1
    /\ req' = [req EXCEPT ![r] =
            IF req[r].kind = "verify"
            THEN Answer(r, PlainError(500, "Internal server error"))
            ELSE Throw(r)]
    /\ nreg' = IF req[r].kind = "register" THEN nreg + 1 ELSE nreg
    /\ UNCHANGED <<posts, postSeq, now, envSecret, users, refreshTokens, sent, sentAccess,
                   consumed, revoked, nreq, noverlap>>

Next ==
    \/ Tick
    \/ Jump
    \/ \E r \in Slots, e \in Emails, p \in RegisterPasswords \cup {Missing} : StartRegister(r, e, p)
    \/ \E r \in Slots : RegisterCheck(r)
    \/ \E r \in Slots : RegisterCreate(r)
    \/ \E r \in Slots, e \in Emails, p \in Passwords \cup {Missing} : StartLogin(r, e, p)
    \/ \E r \in Slots : LoginFind(r)
    \/ \E r \in Slots : LoginDelete(r)
    \/ \E r \in Slots : LoginSign(r)
    \/ \E r \in Slots : LoginCreate(r)
    \/ \E r \in Slots, c \in Cookies : StartRefresh(r, c)
    \/ \E r \in Slots : RefreshFind(r)
    \/ \E r \in Slots : RefreshCheck(r)
    \/ \E r \in Slots : RefreshDelete(r)
    \/ \E r \in Slots : RefreshSign(r)
    \/ \E r \in Slots : RefreshCreate(r)
    \/ \E r \in Slots, c \in Cookies : StartLogout(r, c)
    \/ \E r \in Slots : LogoutFind(r)
    \/ \E r \in Slots : LogoutCheck(r)
    \/ \E r \in Slots : LogoutDelete(r)
    \/ \E r \in Slots, c \in AccessCookies : StartVerify(r, c)
    \/ \E r \in Slots : VerifyFind(r)
    \/ \E r \in Slots : DbFault(r)

Spec == Init /\ [][Next]_vars

(* ------------------------------------------------------------------ *)
(* The posts routes of src/routes/MainPosts.js that write table Post,  *)
(* behind verifyAuth, validateIdParam, validatePostInput and           *)
(* checkPostOwnership.  A title is the sequence of its characters.     *)
(* ------------------------------------------------------------------ *)
MaxPosts == 2
MaxPostRequests == 3

TitleMax == 50

TitleInputs == {<<>>, <<"t">>, <<" ", "t">>}
Absent == "undefined"
ContentInputs == {"c", Absent}
IdParams == 0..MaxPosts

RECURSIVE TrimStart(_)
TrimStart(s) == IF s # <<>> /\ Head(s) = " " THEN TrimStart(Tail(s)) ELSE s

RECURSIVE TrimEnd(_)
TrimEnd(s) == IF s # <<>> /\ s[Len(s)] = " " THEN TrimEnd(SubSeq(s, 1, Len(s) - 1)) ELSE s

(* String.prototype.trim *)
Trim(s) == TrimEnd(TrimStart(s))

(* postSchema: title a string of 1 to 50 characters *)
ValidPostInput(title) == Len(title) >= 1 /\ Len(title) <= TitleMax

(* idSchema: a positive integer *)
ValidIdParam(id) == id > 0

NoPost == [id |-> 0, title |-> <<>>, content |-> "", published |-> FALSE, authorId |-> 0]

FindPost(id) ==
    IF \E p \in posts : p.id = id
    THEN CHOOSE p \in posts : p.id = id
    ELSE NoPost

(* column title is @unique and VarChar(50) *)
TitleTaken(title, exceptId) == \E p \in posts : p.title = title /\ p.id # exceptId
FitsColumn(title) == Len(title) <= TitleMax

ServerError == ErrorResp(500, "Internal server error")

(* The two principals of the posts routes, registered and logged in.   *)
PostUsers ==
    {[id |-> 1, email |-> "a@x.com", password |-> BcryptHash("secret1")],
     [id |-> 2, email |-> "b@x.com", password |-> BcryptHash("secret1")]}

InitPosts ==
    /\ now = 0
    /\ envSecret \in EnvSecrets
    /\ users = PostUsers
    /\ refreshTokens =
            {[token |-> JwtSign(u.id, RefreshSecret, RefreshTtl, 0), userId |-> u.id,
              expiresAt |-> ExpiresAt(0)] : u \in PostUsers}
    /\ req = [r \in Slots |-> Idle]
    /\ sent = {JwtSign(u.id, RefreshSecret, RefreshTtl, 0) : u \in PostUsers}
    /\ sentAccess =
            {[token |-> JwtSign(u.id, AccessSecret, LoginAccessTtl, 0), userId |-> u.id,
              by |-> "login"] : u \in PostUsers}
    /\ consumed = {}
    /\ revoked = {}
    /\ nreq = 0
    /\ nreg = 0
    /\ nfault = 0
    /\ noverlap = 0
    /\ posts = {}
    /\ postSeq = 0

PostCookies == {a.token : a \in sentAccess} \cup {NoToken}

(* verifyAuth up to its user lookup *)
PostArrive(q) ==
    IF q.cookie = NoToken
    THEN [q EXCEPT !.pc = "done", !.resp = PlainError(401, "Access token required")]
    ELSE IF q.cookie.secret # JWT_SECRET(envSecret)
    THEN [q EXCEPT !.pc = "done", !.resp = PlainError(401, "Invalid token")]
    ELSE IF ~JwtVerify(q.cookie, JWT_SECRET(envSecret), now)
    THEN [q EXCEPT !.pc = "done", !.resp = PlainError(401, "Token expired")]
    ELSE q

StartPost(r, route, c, id, title, content) ==
    /\ CanStart(r)
    /\ nreq < MaxPostRequests
    /\ LET q == PostArrive([Fresh(route, "p_auth") EXCEPT
                        !.cookie = c, !.id = id, !.title = title, !.content = content])
           mine == IF q.pc = "done" THEN Settle(q) ELSE q
       IN  /\ req' = Arrive(r, mine)
           /\ Count(mine)
    /\ UNCHANGED <<posts, postSeq, now, envSecret, users, refreshTokens, sent, sentAccess,
                   consumed, revoked, nreg, nfault>>

(* The requests that may still insert a post are counted against       *)
(* MaxPosts when they arrive.                                           *)
Creating == {o \in Slots : InFlight(o) /\ req[o].kind \in {"create", "duplicate"}}

StartCreate(r, c, title, content) ==
    /\ postSeq + Cardinality(Creating) < MaxPosts
    /\ StartPost(r, "create", c, 0, title, content)

StartPut(r, c, id, title, content) == StartPost(r, "put", c, id, title, content)
StartToggle(r, c, id) == StartPost(r, "toggle", c, id, <<>>, "")

StartDuplicate(r, c, id) ==
    /\ postSeq + Cardinality(Creating) < MaxPosts
    /\ StartPost(r, "duplicate", c, id, <<>>, "")

StartDelete(r, c, id) == StartPost(r, "delete", c, id, <<>>, "")

WithId == {"put", "toggle", "duplicate", "delete"}
WithBody == {"create", "put"}

(* the rest of verifyAuth, then validateIdParam and validatePostInput *)
PostAuth(r) ==
    /\ req[r].pc = "p_auth"
    /\ req' = [req EXCEPT ![r] =
            IF FindUserById(req[r].cookie.user_ID) = NoUser
            THEN Answer(r, PlainError(401, "User not found"))
            ELSE IF req[r].kind \in WithId /\ ~ValidIdParam(req[r].id)
            THEN Answer(r, PlainError(400, "Invalid post ID"))
            ELSE IF req[r].kind \in WithBody /\ ~ValidPostInput(req[r].title)
            THEN Answer(r, PlainError(400, "\"title\" is not allowed to be empty"))
            ELSE [req[r] EXCEPT !.reqUser = req[r].cookie,
                                !.pc = IF req[r].kind = "create" THEN "c_dup" ELSE "p_own"]]
    /\ UNCHANGED <<posts, postSeq, now, envSecret, users, refreshTokens, sent, sentAccess,
                   consumed, revoked, nreq, nreg, nfault, noverlap>>

(* a checkPostOwnership that only looks whether the post exists *)
PostOwnAnyAuthor(r) ==
    /\ req[r].pc = "p_own"
    /\ LET post == FindPost(req[r].id)
       IN  req' = [req EXCEPT ![r] =
                IF post = NoPost
                THEN Answer(r, PlainError(404, "Post not found"))
                ELSE IF req[r].kind = "toggle"
                THEN Answer(r, ServerError)
                ELSE [req[r] EXCEPT !.pc = CASE req[r].kind = "put" -> "u_dup"
                                            [] req[r].kind = "duplicate" -> "d_find"
                                            [] OTHER -> "x_delete"]]
    /\ UNCHANGED <<posts, postSeq, now, envSecret, users, refreshTokens, sent, sentAccess,
                   consumed, revoked, nreq, nreg, nfault, noverlap>>

(* checkPostOwnership, and the handler up to its first await.  The      *)
(* toggle-publish handler reads req.post.published, and no middleware   *)
(* sets req.post: the TypeError is caught by the handler's try/catch.   *)
PostOwn(r) ==
    /\ req[r].pc = "p_own"
    /\ LET post == FindPost(req[r].id)
       IN  req' = [req EXCEPT ![r] =
                IF post = NoPost
                THEN Answer(r, PlainError(404, "Post not found"))
                ELSE IF post.authorId # req[r].reqUser.user_ID
                THEN Answer(r, PlainError(403, "Access denied. You can only modify your own posts"))
                ELSE IF req[r].kind = "toggle"
                THEN Answer(r, ServerError)
                ELSE [req[r] EXCEPT !.pc = CASE req[r].kind = "put" -> "u_dup"
                                            [] req[r].kind = "duplicate" -> "d_find"
                                            [] OTHER -> "x_delete"]]
    /\ UNCHANGED <<posts, postSeq, now, envSecret, users, refreshTokens, sent, sentAccess,
                   consumed, revoked, nreq, nreg, nfault, noverlap>>

(* POST /posts *)
CreateDup(r) ==
    /\ req[r].pc = "c_dup"
    /\ req' = [req EXCEPT ![r] =
            IF \E p \in posts : p.title = Trim(req[r].title) /\ p.authorId = req[r].reqUser.user_ID
            THEN Answer(r, ErrorResp(409, "You already have a post with this title"))
            ELSE IF req[r].content = Absent
            THEN Answer(r, ServerError)
            ELSE [req[r] EXCEPT !.pc = "c_create"]]
    /\ UNCHANGED <<posts, postSeq, now, envSecret, users, refreshTokens, sent, sentAccess,
                   consumed, revoked, nreq, nreg, nfault, noverlap>>

CreateInsert(r) ==
    /\ req[r].pc = "c_create"
    /\ IF TitleTaken(Trim(req[r].title), 0)
       THEN /\ req' = [req EXCEPT ![r] =
                    Answer(r, ErrorResp(409, "A post with this title already exists"))]
            /\ UNCHANGED <<posts, postSeq>>
       ELSE /\ posts' = posts \cup
                    {[id |-> postSeq + 1, title |-> Trim(req[r].title),
                      content |-> req[r].content, published |-> FALSE,
                      authorId |-> req[r].reqUser.user_ID]}
            /\ postSeq' = postSeq + 1
            /\ req' = [req EXCEPT ![r] =
                    Answer(r, [NoResp EXCEPT !.status = 201, !.bstatus = "success",
                                             !.message = "Post saved as draft successfully"])]
    /\ UNCHANGED <<now, envSecret, users, refreshTokens, sent, sentAccess,
                   consumed, revoked, nreq, nreg, nfault, noverlap>>

(* PUT /posts/:id *)
PutDup(r) ==
    /\ req[r].pc = "u_dup"
    /\ req' = [req EXCEPT ![r] =
            IF \E p \in posts : /\ p.title = Trim(req[r].title)
                                /\ p.authorId = req[r].reqUser.user_ID
                                /\ p.id # req[r].id
            THEN Answer(r, ErrorResp(409, "You already have another post with this title"))
            ELSE IF req[r].content = Absent
            THEN Answer(r, ServerError)
            ELSE [req[r] EXCEPT !.pc = "u_update"]]
    /\ UNCHANGED <<posts, postSeq, now, envSecret, users, refreshTokens, sent, sentAccess,
                   consumed, revoked, nreq, nreg, nfault, noverlap>>

PutUpdate(r) ==
    /\ req[r].pc = "u_update"
    /\ IF FindPost(req[r].id) = NoPost
       THEN /\ req' = [req EXCEPT ![r] = Answer(r, ServerError)]
            /\ UNCHANGED posts
       ELSE IF TitleTaken(Trim(req[r].title), req[r].id)
       THEN /\ req' = [req EXCEPT ![r] =
                    Answer(r, ErrorResp(409, "A post with this title already exists"))]
            /\ UNCHANGED posts
       ELSE /\ posts' = (posts \ {FindPost(req[r].id)}) \cup
                    {[FindPost(req[r].id) EXCEPT !.title = Trim(req[r].title),
                                                 !.content = req[r].content,
                                                 !.published = FALSE]}
            /\ req' = [req EXCEPT ![r] =
                    Answer(r, [NoResp EXCEPT !.status = 200, !.bstatus = "success",
                                             !.message = "Post updated successfully"])]
    /\ UNCHANGED <<postSeq, now, envSecret, users, refreshTokens, sent, sentAccess,
                   consumed, revoked, nreq, nreg, nfault, noverlap>>

(* POST /posts/:id/duplicate *)
CopyPrefix == <<"C", "o", "p", "y", " ", "o", "f", " ">>
DigitChars == <<"0", "1", "2", "3", "4", "5", "6", "7", "8", "9">>

RECURSIVE Digits(_)
Digits(n) == IF n < 10 THEN <<DigitChars[n + 1]>>
             ELSE Digits(n \div 10) \o <<DigitChars[(n % 10) + 1]>>

(* `Copy of ${title}`, then `Copy of ${title} (${counter})` *)
CopyTitle(title, counter) ==
    IF counter = 1 THEN CopyPrefix \o title
    ELSE CopyPrefix \o title \o <<" ", "(">> \o Digits(counter) \o <<")">>

DupFind(r) ==
    /\ req[r].pc = "d_find"
    /\ req' = [req EXCEPT ![r] =
            IF FindPost(req[r].id) = NoPost
            THEN Answer(r, ErrorResp(404, "Post not found"))
            ELSE [req[r] EXCEPT !.pc = "d_loop",
                                !.title = FindPost(req[r].id).title,
                                !.content = FindPost(req[r].id).content,
                                !.counter = 1]]
    /\ UNCHANGED <<posts, postSeq, now, envSecret, users, refreshTokens, sent, sentAccess,
                   consumed, revoked, nreq, nreg, nfault, noverlap>>

DupLoop(r) ==
    /\ req[r].pc = "d_loop"
    /\ req' = [req EXCEPT ![r] =
            IF \E p \in posts : /\ p.title = CopyTitle(req[r].title, req[r].counter)
                                /\ p.authorId = req[r].reqUser.user_ID
            THEN [req[r] EXCEPT !.counter = req[r].counter + 1]
            ELSE [req[r] EXCEPT !.pc = "d_create"]]
    /\ UNCHANGED <<posts, postSeq, now, envSecret, users, refreshTokens, sent, sentAccess,
                   consumed, revoked, nreq, nreg, nfault, noverlap>>

DupCreate(r) ==
    /\ req[r].pc = "d_create"
    /\ LET newTitle == CopyTitle(req[r].title, req[r].counter)
       IN  IF ~FitsColumn(newTitle) \/ TitleTaken(newTitle, 0)
           THEN /\ req' = [req EXCEPT ![r] = Answer(r, ServerError)]
                /\ UNCHANGED <<posts, postSeq>>
           ELSE /\ posts' = posts \cup
                        {[id |-> postSeq + 1, title |-> newTitle,
                          content |-> req[r].content, published |-> FALSE,
                          authorId |-> req[r].reqUser.user_ID]}
                /\ postSeq' = postSeq + 1
                /\ req' = [req EXCEPT ![r] =
                        Answer(r, [NoResp EXCEPT !.status = 201, !.bstatus = "success",
                                                 !.message = "Post duplicated successfully"])]
    /\ UNCHANGED <<now, envSecret, users, refreshTokens, sent, sentAccess,
                   consumed, revoked, nreq, nreg, nfault, noverlap>>

(* DELETE /posts/:id *)
DeletePost(r) ==
    /\ req[r].pc = "x_delete"
    /\ IF FindPost(req[r].id) = NoPost
       THEN /\ req' = [req EXCEPT ![r] =
                    Answer(r, ErrorResp(404, "Post not found or already deleted"))]
            /\ UNCHANGED posts
       ELSE /\ posts' = posts \ {FindPost(req[r].id)}
            /\ req' = [req EXCEPT ![r] =
                    Answer(r, [NoResp EXCEPT !.status = 200, !.bstatus = "success",
                                             !.message = "Post deleted successfully"])]
    /\ UNCHANGED <<postSeq, now, envSecret, users, refreshTokens, sent, sentAccess,
                   consumed, revoked, nreq, nreg, nfault, noverlap>>

(* A persistence call of a posts route that fails: every one of them is *)
(* awaited inside a try/catch that answers 500.                         *)
PostAwaiting == {"p_auth", "p_own", "c_dup", "c_create", "u_dup", "u_update",
                 "d_find", "d_loop", "d_create", "x_delete"}

PostDbFault(r) ==
    /\ req[r].pc \in PostAwaiting
    /\ nfault < MaxFaults
    /\ nfault' = nfault + 1
    /\ req' = [req EXCEPT ![r] =
            IF req[r].pc \in {"p_auth", "p_own"}
            THEN Answer(r, PlainError(500, "Internal server error"))
            ELSE Answer(r, ServerError)]
    /\ UNCHANGED <<posts, postSeq, now, envSecret, users, refreshTokens, sent, sentAccess,
                   consumed, revoked, nreq, nreg, noverlap>>

NextPosts ==
    \/ \E r \in Slots, c \in PostCookies, t \in TitleInputs, b \in ContentInputs :
            StartCreate(r, c, t, b)
    \/ \E r \in Slots, c \in PostCookies, i \in IdParams, t \in TitleInputs, b \in ContentInputs :
            StartPut(r, c, i, t, b)
    \/ \E r \in Slots, c \in PostCookies, i \in IdParams : StartToggle(r, c, i)
    \/ \E r \in Slots, c \in PostCookies, i \in IdParams :
            StartDuplicate(r, c, i)
    \/ \E r \in Slots, c \in PostCookies, i \in IdParams : StartDelete(r, c, i)
    \/ \E r \in Slots : PostAuth(r)
    \/ \E r \in Slots : PostOwn(r)
    \/ \E r \in Slots : CreateDup(r)
    \/ \E r \in Slots : CreateInsert(r)
    \/ \E r \in Slots : PutDup(r)
    \/ \E r \in Slots : PutUpdate(r)
    \/ \E r \in Slots : DupFind(r)
    \/ \E r \in Slots : DupLoop(r)
    \/ \E r \in Slots : DupCreate(r)
    \/ \E r \in Slots : DeletePost(r)
    \/ \E r \in Slots : PostDbFault(r)

SpecPosts == InitPosts /\ [][NextPosts]_vars

(* ------------------------------------------------------------------ *)
(* POST /login of the later revision of the auth routes                *)
(* (src/unnamed/part_002), behind the later validateLoginInput and     *)
(* getUserByEmail of src/middlewares/MainAuthMiddlewares.js.           *)
(* ------------------------------------------------------------------ *)
LaterPasswords == {"secret1", "wrong12", "wrong"}

(* the number of characters of the passwords of the model *)
PasswordLength(pw) ==
    CASE pw = "secret1" -> 7
      [] pw = "wrong12" -> 7
      [] pw = "wrong" -> 5
      [] OTHER -> 0

PasswordMin == 6

(* loginSchema: password a string of at least 6 characters *)
ValidLoginInput(pw) == PasswordLength(pw) >= PasswordMin

InvalidCredentials == PlainError(401, "Invalid email or password")

(* deleteMany({where: {userId, OR: [{expiresAt: {lt: new Date()}}]}}):   *)
(* the fields of a where are joined by AND, so the records deleted are  *)
(* those of the user that have expired.                                 *)
DeleteManyExpiredByUser(uid, t) ==
    {x \in refreshTokens : ~(x.userId = uid /\ x.expiresAt < t)}

(* The later revision's registration has run for one user. *)
InitLater ==
    /\ now = 0
    /\ envSecret \in EnvSecrets
    /\ users = {[id |-> 1, email |-> "a@x.com", password |-> BcryptHash("secret1")]}
    /\ refreshTokens = {}
    /\ req = [r \in Slots |-> Idle]
    /\ sent = {}
    /\ sentAccess = {}
    /\ consumed = {}
    /\ revoked = {}
    /\ nreq = 0
    /\ nreg = 0
    /\ nfault = 0
    /\ noverlap = 0
    /\ posts = {}
    /\ postSeq = 0

StartLaterLogin(r, email, pw) ==
    /\ CanStart(r)
    /\ LET q == [Fresh("laterLogin", "m_find") EXCEPT !.email = email, !.password = pw]
           mine == IF ~ValidLoginInput(pw)
                   THEN [q EXCEPT !.pc = "done",
                                  !.resp = PlainError(400,
                                      IF pw = Missing
                                      THEN "\"password\" is not allowed to be empty"
                                      ELSE "\"password\" length must be at least 6 characters long")]
                   ELSE q
       IN  /\ req' = Arrive(r, mine)
           /\ Count(mine)
    /\ UNCHANGED <<posts, postSeq, now, envSecret, users, refreshTokens, sent, sentAccess,
                   consumed, revoked, nreg, nfault>>

(* getUserByEmail, then bcrypt.compare *)
LaterLoginFind(r) ==
    /\ req[r].pc = "m_find"
    /\ LET user == FindUserByEmail(req[r].email)
       IN  req' = [req EXCEPT ![r] =
                IF user = NoUser
                THEN Answer(r, InvalidCredentials)
                ELSE IF ~BcryptCompare(req[r].password, user.password)
                THEN [Answer(r, ErrorResp(401, "Invalid email or password")) EXCEPT !.found = TRUE]
                ELSE [req[r] EXCEPT !.pc = "m_delete", !.foundUser = user, !.found = TRUE]]
    /\ UNCHANGED <<posts, postSeq, now, envSecret, users, refreshTokens, sent, sentAccess,
                   consumed, revoked, nreq, nreg, nfault, noverlap>>

LaterLoginDelete(r) ==
    /\ req[r].pc = "m_delete"
    /\ refreshTokens' = DeleteManyExpiredByUser(req[r].foundUser.id, now)
    /\ req' = [req EXCEPT ![r].pc = "m_sign"]
    /\ UNCHANGED <<posts, postSeq, now, envSecret, users, sent, sentAccess,
                   consumed, revoked, nreq, nreg, nfault, noverlap>>

LaterLoginSign(r) ==
    /\ req[r].pc = "m_sign"
    /\ req' = [req EXCEPT ![r] = [@ EXCEPT
            !.pc = "m_create",
            !.newAccess = JwtSign(req[r].foundUser.id, JWT_SECRET(envSecret), LoginAccessTtl, now),
            !.newRefresh = JwtSign(req[r].foundUser.id, RefreshSecret, RefreshTtl, now),
            !.expiresAt = ExpiresAt(now)]]
    /\ UNCHANGED <<posts, postSeq, now, envSecret, users, refreshTokens, sent, sentAccess,
                   consumed, revoked, nreq, nreg, nfault, noverlap>>

(* a token string that is already stored violates the unique index; the *)
(* handler's catch answers 500                                          *)
LaterLoginCreate(r) ==
    /\ req[r].pc = "m_create"
    /\ IF FindToken(req[r].newRefresh) # NoRecord
       THEN /\ req' = [req EXCEPT ![r] = Answer(r, ServerError)]
            /\ UNCHANGED <<refreshTokens, sent, sentAccess>>
       ELSE /\ refreshTokens' = refreshTokens \cup
                    {[token |-> req[r].newRefresh, userId |-> req[r].foundUser.id,
                      expiresAt |-> req[r].expiresAt]}
            /\ req' = [req EXCEPT ![r] =
                    Answer(r, [TokenResp("Logged in successfully", req[r].newAccess, req[r].newRefresh)
                                  EXCEPT !.user = [req[r].foundUser EXCEPT !.password = ""]])]
            /\ sent' = sent \cup {req[r].newRefresh}
            /\ sentAccess' = sentAccess \cup
                    {[token |-> req[r].newAccess, userId |-> req[r].foundUser.id,
                      by |-> "login"]}
    /\ UNCHANGED <<posts, postSeq, now, envSecret, users, consumed, revoked, nreq, nreg, nfault, noverlap>>

LaterLoginFault(r) ==
    /\ req[r].pc \in {"m_find", "m_delete", "m_create"}
    /\ nfault < MaxFaults
    /\ nfault' = nfault + 1
    /\ req' = [req EXCEPT ![r] =
            IF req[r].pc = "m_find"
            THEN Answer(r, PlainError(500, "Internal server error"))
            ELSE Answer(r, ServerError)]
    /\ UNCHANGED <<posts, postSeq, now, envSecret, users, refreshTokens, sent, sentAccess,
                   consumed, revoked, nreq, nreg, noverlap>>

NextLater ==
    \/ Tick
    \/ Jump
    \/ \E r \in Slots, e \in Emails, p \in LaterPasswords \cup {Missing} : StartLaterLogin(r, e, p)
    \/ \E r \in Slots : LaterLoginFind(r)
    \/ \E r \in Slots : LaterLoginDelete(r)
    \/ \E r \in Slots : LaterLoginSign(r)
    \/ \E r \in Slots : LaterLoginCreate(r)
    \/ \E r \in Slots : LaterLoginFault(r)

SpecLater == InitLater /\ [][NextLater]_vars

(* ------------------------------------------------------------------ *)
(* GET /posts/:id and PATCH /posts/bulk-update, over posts that the    *)
(* write routes have stored                                            *)
(* ------------------------------------------------------------------ *)
(* Post 1 is a post of user 1; post 2, when stored, is a post of either *)
(* user.  A post is a draft until a bulk publish.                       *)
StoredPosts ==
    {{[id |-> 1, title |-> <<"t">>, content |-> "c", published |-> b, authorId |-> 1]}
        : b \in BOOLEAN}

SecondPosts ==
    {{}} \cup
    {{[id |-> 2, title |-> <<"u">>, content |-> "c", published |-> b, authorId |-> a]}
        : b \in BOOLEAN, a \in {1, 2}}

InitStored ==
    /\ now = 0
    /\ envSecret \in EnvSecrets
    /\ users = PostUsers
    /\ refreshTokens =
            {[token |-> JwtSign(u.id, RefreshSecret, RefreshTtl, 0), userId |-> u.id,
              expiresAt |-> ExpiresAt(0)] : u \in PostUsers}
    /\ req = [r \in Slots |-> Idle]
    /\ sent = {JwtSign(u.id, RefreshSecret, RefreshTtl, 0) : u \in PostUsers}
    /\ sentAccess =
            {[token |-> JwtSign(u.id, AccessSecret, LoginAccessTtl, 0), userId |-> u.id,
              by |-> "login"] : u \in PostUsers}
    /\ consumed = {}
    /\ revoked = {}
    /\ nreq = 0
    /\ nreg = 0
    /\ nfault = 0
    /\ noverlap = 0
    /\ \E one \in StoredPosts, two \in SecondPosts : posts = one \cup two
    /\ postSeq = MaxPosts

(* the signed cookie "token" of a request: none, one that is no JWT, an *)
(* access token, or the refresh token of a login                        *)
GetCookies == {a.token : a \in sentAccess} \cup {NoToken, Garbage}
                \cup {t \in sent : t.user_ID = 1}

PostFound == [NoResp EXCEPT !.status = 200, !.bstatus = "success",
                            !.message = "Post retrieved successfully"]

PostNotFound == ErrorResp(404, "Post not found")

(* validateIdParam *)
StartGet(r, c, id) ==
    /\ CanStart(r)
    /\ nreq < MaxPostRequests
    /\ LET q == [Fresh("get", "g_find") EXCEPT !.cookie = c, !.id = id]
           mine == IF ~ValidIdParam(id)
                   THEN Settle([q EXCEPT !.pc = "done",
                                         !.resp = PlainError(400, "Invalid post ID")])
                   ELSE q
       IN  /\ req' = Arrive(r, mine)
           /\ Count(mine)
    /\ UNCHANGED <<posts, postSeq, now, envSecret, users, refreshTokens, sent, sentAccess,
                   consumed, revoked, nreg, nfault>>

(* a handler that shows a draft to every requester with a valid token *)
GetAnswerAnyUser(post, token, t) ==
    IF post = NoPost
    THEN PostNotFound
    ELSE IF ~post.published
    THEN IF token = NoToken
         THEN PostNotFound
         ELSE IF ~JwtVerify(token, JWT_SECRET(envSecret), t)
         THEN PostNotFound
         ELSE PostFound
    ELSE PostFound

(* what the handler decides once findUnique has returned post *)
GetAnswer(post, token, t) ==
    IF post = NoPost
    THEN PostNotFound
    ELSE IF ~post.published
    THEN IF token = NoToken
         THEN PostNotFound
         ELSE IF ~JwtVerify(token, JWT_SECRET(envSecret), t)
         THEN PostNotFound
         ELSE IF token.user_ID # post.authorId
         THEN PostNotFound
         ELSE PostFound
    ELSE PostFound

GetPost(r) ==
    /\ req[r].pc = "g_find"
    /\ req' = [req EXCEPT ![r] = Answer(r, GetAnswer(FindPost(req[r].id), req[r].cookie, now))]
    /\ UNCHANGED <<posts, postSeq, now, envSecret, users, refreshTokens, sent, sentAccess,
                   consumed, revoked, nreq, nreg, nfault, noverlap>>

(* findUnique failing: the handler's catch answers 500 *)
GetDbFault(r) ==
    /\ req[r].pc = "g_find"
    /\ nfault < MaxFaults
    /\ nfault' = nfault + 1
    /\ req' = [req EXCEPT ![r] = Answer(r, ServerError)]
    /\ UNCHANGED <<posts, postSeq, now, envSecret, users, refreshTokens, sent, sentAccess,
                   consumed, revoked, nreq, nreg, noverlap>>

NextGet ==
    \/ Jump
    \/ \E r \in Slots, c \in GetCookies, i \in IdParams : StartGet(r, c, i)
    \/ \E r \in Slots : GetPost(r)
    \/ \E r \in Slots : GetDbFault(r)

SpecGet == InitStored /\ [][NextGet]_vars

(* PATCH /posts/bulk-update *)
PostIdsInputs == {<<>>, <<1>>, <<2>>, <<1, 1>>, <<1, 2>>}
BulkActions == {"publish", "unpublish", "delete"}
ActionInputs == BulkActions \cup {"archive"}

IdsOf(postIds) == {postIds[i] : i \in 1..Len(postIds)}

StartBulk(r, c, postIds, action) ==
    /\ CanStart(r)
    /\ nreq < MaxPostRequests
    /\ LET q == PostArrive([Fresh("bulk", "b_auth") EXCEPT
                        !.cookie = c, !.postIds = postIds, !.action = action])
           mine == IF q.pc = "done" THEN Settle(q) ELSE q
       IN  /\ req' = Arrive(r, mine)
           /\ Count(mine)
    /\ UNCHANGED <<posts, postSeq, now, envSecret, users, refreshTokens, sent, sentAccess,
                   consumed, revoked, nreg, nfault>>

(* verifyAuth's user lookup, then the handler's checks of the body *)
BulkAuth(r) ==
    /\ req[r].pc = "b_auth"
    /\ req' = [req EXCEPT ![r] =
            IF FindUserById(req[r].cookie.user_ID) = NoUser
            THEN Answer(r, PlainError(401, "User not found"))
            ELSE IF Len(req[r].postIds) = 0
            THEN Answer(r, ErrorResp(400, "Post IDs array is required"))
            ELSE IF req[r].action \notin BulkActions
            THEN Answer(r, ErrorResp(400, "Invalid action. Must be 'publish', 'unpublish', or 'delete'"))
            ELSE [req[r] EXCEPT !.reqUser = req[r].cookie, !.pc = "b_find"]]
    /\ UNCHANGED <<posts, postSeq, now, envSecret, users, refreshTokens, sent, sentAccess,
                   consumed, revoked, nreq, nreg, nfault, noverlap>>

(* findMany({where: {id: {in: ids}, authorId}}) returns each matching    *)
(* post once; its length is compared with postIds.length                 *)
BulkFind(r) ==
    /\ req[r].pc = "b_find"
    /\ LET userPosts == {p \in posts : /\ p.id \in IdsOf(req[r].postIds)
                                       /\ p.authorId = req[r].reqUser.user_ID}
       IN  req' = [req EXCEPT ![r] =
                IF Cardinality(userPosts) # Len(req[r].postIds)
                THEN Answer(r, ErrorResp(403, "You can only modify your own posts"))
                ELSE [req[r] EXCEPT !.pc = "b_apply",
                                    !.validPostIds = {p.id : p \in userPosts}]]
    /\ UNCHANGED <<posts, postSeq, now, envSecret, users, refreshTokens, sent, sentAccess,
                   consumed, revoked, nreq, nreg, nfault, noverlap>>

BulkApply(r) ==
    /\ req[r].pc = "b_apply"
    /\ posts' =
            CASE req[r].action = "publish" ->
                    {IF p.id \in req[r].validPostIds THEN [p EXCEPT !.published = TRUE] ELSE p
                        : p \in posts}
              [] req[r].action = "unpublish" ->
                    {IF p.id \in req[r].validPostIds THEN [p EXCEPT !.published = FALSE] ELSE p
                        : p \in posts}
              [] OTHER -> {p \in posts : p.id \notin req[r].validPostIds}
    /\ req' = [req EXCEPT ![r] =
            Answer(r, [NoResp EXCEPT !.status = 200, !.bstatus = "success",
                                     !.message = "posts updated successfully"])]
    /\ UNCHANGED <<postSeq, now, envSecret, users, refreshTokens, sent, sentAccess,
                   consumed, revoked, nreq, nreg, nfault, noverlap>>

(* a persistence call of PATCH /posts/bulk-update that fails *)
BulkDbFault(r) ==
    /\ req[r].pc \in {"b_auth", "b_find", "b_apply"}
    /\ nfault < MaxFaults
    /\ nfault' = nfault + 1
    /\ req' = [req EXCEPT ![r] =
            IF req[r].pc = "b_auth"
            THEN Answer(r, PlainError(500, "Internal server error"))
            ELSE Answer(r, ServerError)]
    /\ UNCHANGED <<posts, postSeq, now, envSecret, users, refreshTokens, sent, sentAccess,
                   consumed, revoked, nreq, nreg, noverlap>>

NextBulk ==
    \/ \E r \in Slots, c \in PostCookies, s \in PostIdsInputs, a \in ActionInputs :
            StartBulk(r, c, s, a)
    \/ \E r \in Slots : BulkAuth(r)
    \/ \E r \in Slots : BulkFind(r)
    \/ \E r \in Slots : BulkApply(r)
    \/ \E r \in Slots : BulkDbFault(r)

SpecBulk == InitStored /\ [][NextBulk]_vars

(* ------------------------------------------------------------------ *)
(* POST /posts/:id/duplicate over the titles postSchema allows         *)
(* ------------------------------------------------------------------ *)
TitleOfLength(n) == [i \in 1..n |-> "t"]

(* a short title, the longest title whose copy fits the column, the    *)
(* next longer one, and the longest title postSchema allows             *)
OriginalTitles ==
    {TitleOfLength(1), TitleOfLength(TitleMax - Len(CopyPrefix)),
     TitleOfLength(TitleMax - Len(CopyPrefix) + 1), TitleOfLength(TitleMax)}

(* User 1 has stored one post through POST /posts. *)
InitDuplicate ==
    /\ now = 0
    /\ envSecret \in EnvSecrets
    /\ users = PostUsers
    /\ refreshTokens =
            {[token |-> JwtSign(u.id, RefreshSecret, RefreshTtl, 0), userId |-> u.id,
              expiresAt |-> ExpiresAt(0)] : u \in PostUsers}
    /\ req = [r \in Slots |-> Idle]
    /\ sent = {JwtSign(u.id, RefreshSecret, RefreshTtl, 0) : u \in PostUsers}
    /\ sentAccess =
            {[token |-> JwtSign(u.id, AccessSecret, LoginAccessTtl, 0), userId |-> u.id,
              by |-> "login"] : u \in PostUsers}
    /\ consumed = {}
    /\ revoked = {}
    /\ nreq = 0
    /\ nreg = 0
    /\ nfault = 0
    /\ noverlap = 0
    /\ \E t \in OriginalTitles :
            posts = {[id |-> 1, title |-> t, content |-> "c", published |-> FALSE,
                      authorId |-> 1]}
    /\ postSeq = 1

NextDuplicate ==
    \/ \E r \in Slots, c \in PostCookies, i \in IdParams : StartDuplicate(r, c, i)
    \/ \E r \in Slots : PostAuth(r)
    \/ \E r \in Slots : PostOwn(r)
    \/ \E r \in Slots : DupFind(r)
    \/ \E r \in Slots : DupLoop(r)
    \/ \E r \in Slots : DupCreate(r)
    \/ \E r \in Slots : PostDbFault(r)

SpecDuplicate == InitDuplicate /\ [][NextDuplicate]_vars

(* ------------------------------------------------------------------ *)
(* The auth routes of src/routes/MainAuth.js with two registered users *)
(* ------------------------------------------------------------------ *)
InitTwoUsers ==
    /\ now = 0
    /\ envSecret \in EnvSecrets
    /\ users = PostUsers
    /\ refreshTokens = {}
    /\ req = [r \in Slots |-> Idle]
    /\ sent = {}
    /\ sentAccess = {}
    /\ consumed = {}
    /\ revoked = {}
    /\ nreq = 0
    /\ nreg = 0
    /\ nfault = 0
    /\ noverlap = 0
    /\ posts = {}
    /\ postSeq = 0

NextTwoUsers ==
    \/ Tick
    \/ \E r \in Slots, u \in PostUsers, p \in Passwords : StartLogin(r, u.email, p)
    \/ \E r \in Slots : LoginFind(r)
    \/ \E r \in Slots : LoginDelete(r)
    \/ \E r \in Slots : LoginSign(r)
    \/ \E r \in Slots : LoginCreate(r)
    \/ \E r \in Slots, c \in Cookies : StartRefresh(r, c)
    \/ \E r \in Slots : RefreshFind(r)
    \/ \E r \in Slots : RefreshCheck(r)
    \/ \E r \in Slots : RefreshDelete(r)
    \/ \E r \in Slots : RefreshSign(r)
    \/ \E r \in Slots : RefreshCreate(r)
    \/ \E r \in Slots, c \in Cookies : StartLogout(r, c)
    \/ \E r \in Slots : LogoutFind(r)
    \/ \E r \in Slots : LogoutCheck(r)
    \/ \E r \in Slots : LogoutDelete(r)
    \/ \E r \in Slots : DbFault(r)

SpecTwoUsers == InitTwoUsers /\ [][NextTwoUsers]_vars

(* ------------------------------------------------------------------ *)
(* Properties                                                         *)
(* ------------------------------------------------------------------ *)
Answered(r, kind) == req[r].kind = kind /\ req[r].pc = "done"
Settled(r, kind) == req[r].kind = kind /\ req[r].pc \in {"done", "hung"}

(* the step in which request r of the given kind is answered *)
Answers(r, kind) ==
    /\ req[r].kind = kind
    /\ req[r].pc # "done"
    /\ req'[r].kind = kind
    /\ req'[r].pc = "done"

UserRecords(store, uid) == {x \in store : x.userId = uid}

(* C1: a refresh token that a Refresh answered 200 has consumed is       *)
(* answered 403 by every Refresh request that presents it afterwards.    *)
C1_ConsumedTokenRejected ==
    \A r \in Slots :
        (Answered(r, "refresh") /\ req[r].wasConsumed) => req[r].resp.status = 403

(* C2: of two /refreshToken requests in flight together with the same    *)
(* refresh token, at most one is answered 200.                           *)
C2_AtMostOneSuccess ==
    \A r1, r2 \in Slots :
        (/\ r1 # r2
         /\ Answered(r1, "refresh") /\ Answered(r2, "refresh")
         /\ req[r1].raced /\ req[r2].raced
         /\ req[r1].cookie = req[r2].cookie)
        => ~(req[r1].resp.status = 200 /\ req[r2].resp.status = 200)

(* C3: two simultaneous Refresh requests with the same stored token,     *)
(* unexpired until both have ended, end, when no persistence call        *)
(* failed, as one 200 and one 403.                                       *)
C3_OneSuccessOneInvalid ==
    \A r1, r2 \in Slots :
        (/\ r1 # r2
         /\ nfault = 0
         /\ Settled(r1, "refresh") /\ Settled(r2, "refresh")
         /\ req[r1].raced /\ req[r2].raced
         /\ req[r1].cookie = req[r2].cookie
         /\ req[r1].storedOk /\ req[r2].storedOk
         /\ Seconds(now) < req[r1].cookie.exp)
        => {req[r1].resp.status, req[r2].resp.status} = {200, 403}

C6_LoginTokenAccepted ==
    \A r \in Slots : \A a \in sentAccess :
        (/\ Answered(r, "verify")
         /\ a.by = "login" /\ a.token = req[r].cookie
         /\ ~req[r].sigExpired
         /\ req[r].resp.status # 500)
        => (req[r].resp.status = 0 /\ req[r].reqUser.user_ID = a.userId)

(* C7: after a logout with token T was answered 200, every Refresh that  *)
(* presents T afterwards is answered 403.                                *)
C7_LoggedOutTokenRejected ==
    \A r \in Slots :
        (Answered(r, "refresh") /\ req[r].wasRevoked) => req[r].resp.status = 403

(* C8: every refused login, for an unknown email as for a wrong          *)
(* password, has one and the same status, body fields and message.       *)
Shape(resp) == <<resp.status, resp.bstatus # "", resp.message, resp.code # NoCode>>

C8_SameFailureShape ==
    \A r \in Slots :
        (Answered(r, "login") /\ req[r].resp.status = 401)
        => (Shape(req[r].resp) = Shape(UserNotFound)
            /\ Shape(req[r].resp) = Shape(PasswordIncorrect))

(* C9: at the moment a login is answered 200 the principal's only        *)
(* RefreshToken record is the new one, and no refresh token issued to    *)
(* the principal before can be redeemed.                                 *)
C9_LoginLeavesOnlyNewToken ==
    [][\A r \in Slots :
        (Answers(r, "login") /\ req'[r].resp.status = 200) =>
            /\ UserRecords(refreshTokens', req[r].foundUser.id) =
                    {[token |-> req[r].newRefresh, userId |-> req[r].foundUser.id,
                      expiresAt |-> req[r].expiresAt]}
            /\ \A t \in sent :
                    t.user_ID = req[r].foundUser.id => ~Redeemable(t, refreshTokens', now)]_vars

(* C10: a Refresh that stops between the delete and the insert does not  *)
(* leave its principal without a redeemable refresh token, and the       *)
(* consumed token and its successor are never both redeemable.           *)
C10_RotationAtomic ==
    \A r \in Slots :
        /\ (req[r].kind = "refresh" /\ req[r].pc = "hung" /\ req[r].at = "f_create")
           => \E x \in UserRecords(refreshTokens, req[r].cookie.user_ID) :
                    Redeemable(x.token, refreshTokens, now)
        /\ (Answered(r, "refresh") /\ req[r].resp.status = 200
            /\ req[r].resp.refreshToken # req[r].cookie)
           => ~(Redeemable(req[r].cookie, refreshTokens, now)
                /\ Redeemable(req[r].resp.refreshToken, refreshTokens, now))

(* C11: a Refresh without a cookie, with a token that fails jwt.verify   *)
(* (signature or signed expiry), or with a token for which the lookup    *)
(* returned no record, is answered 401 or 403: it is never answered 500  *)
(* and the handler never throws on it.                                   *)
AuthFailureCase(r) ==
    \/ req[r].cookie = NoToken
    \/ req[r].cookie.secret # RefreshSecret
    \/ req[r].sigExpired
    \/ (~req[r].found /\ req[r].pc # "f_find"
            /\ ~(req[r].pc = "hung" /\ req[r].at = "f_find"))

C11_AuthFailureNever500 ==
    \A r \in Slots :
        (req[r].kind = "refresh" /\ AuthFailureCase(r))
        => /\ req[r].pc \in {"f_check", "done"}
           /\ req[r].pc = "done" => req[r].resp.status \in {401, 403}

(* C11 witness: a validly signed token without a record was refused.     *)
C11_Witness ==
    \E r \in Slots :
        /\ Answered(r, "refresh")
        /\ req[r].cookie.secret = RefreshSecret /\ ~req[r].sigExpired
        /\ ~req[r].found
        /\ req[r].resp.status = 403

(* C12: a login, refresh or logout whose persistence call failed is      *)
(* answered 500; no such request is left without an answer.              *)
C12_FaultAnswered500 ==
    \A r \in Slots :
        req[r].kind \in {"login", "refresh", "logout"} => req[r].pc # "hung"

LiveRecords(uid) == {x \in UserRecords(refreshTokens, uid) : ~Expired(x, now)}

C14_AtMostOneLiveToken ==
    \A u \in users : Cardinality(LiveRecords(u.id)) <= 1

(* C15: no response of /register or /login carries a password.  The     *)
(* only part of a response body that can hold one is its user object:    *)
(* where a user object is returned, its password field is no hash.       *)
C15_NoPasswordInResponse ==
    \A r \in Slots :
        ((Answered(r, "register") \/ Answered(r, "login")) /\ req[r].resp.user.id # 0)
        => req[r].resp.user.password \notin {BcryptHash(p) : p \in Passwords}

(* C16: an access token that login or refresh has minted, presented to   *)
(* verifyAuth before its signed expiry, is accepted, whatever has become *)
(* of the refresh tokens of its principal in the meantime.               *)
C16_AccessTokenStateless ==
    \A r \in Slots :
        (/\ Answered(r, "verify")
         /\ req[r].cookie \in {a.token : a \in sentAccess}
         /\ ~req[r].sigExpired
         /\ req[r].resp.status # 500)
        => req[r].resp.status = 0

(* A step that answers request r of an owner-only posts route, sent     *)
(* with a token verifyAuth's jwt.verify has accepted, by a user who     *)
(* exists and is not the author of the stored post the route names.     *)
AnswersNonOwner(r) ==
    /\ req[r].kind \in WithId
    /\ InFlight(r)
    /\ req'[r].pc = "done"
    /\ FindUserById(req[r].cookie.user_ID) # NoUser
    /\ FindPost(req[r].id) # NoPost
    /\ FindPost(req[r].id).authorId # req[r].cookie.user_ID

(* C17 as stated: such a request is answered 403, unless a persistence  *)
(* call failed, and table Post is left unchanged.                        *)
C17_NonOwnerAnswered403 ==
    [][\A r \in Slots :
        (AnswersNonOwner(r) /\ req'[r].resp.status # 500)
        => (req'[r].resp.status = 403 /\ posts' = posts)]_vars

(* C17 amended: such a request leaves table Post unchanged; it is        *)
(* answered 403 by checkPostOwnership, except that a PUT whose body      *)
(* fails validatePostInput is answered 400 before the ownership check,   *)
(* and that a failed persistence call is answered 500.                   *)
C17_NonOwnerRefused ==
    [][\A r \in Slots :
        AnswersNonOwner(r) =>
            /\ posts' = posts
            /\ req'[r].resp.status \in {400, 403, 500}
            /\ req'[r].resp.status = 400 =>
                    (req[r].kind = "put" /\ req[r].pc = "p_auth"
                     /\ ~ValidPostInput(req[r].title))
            /\ (req[r].pc = "p_own" /\ req'[r].resp.status # 500)
                    => req'[r].resp.status = 403]_vars

(* C17 witness: a request on a stored post of another author was        *)
(* answered 403.                                                         *)
C17_Witness ==
    \E r \in Slots :
        /\ req[r].kind \in WithId /\ req[r].pc = "done"
        /\ req[r].resp.status = 403
        /\ FindPost(req[r].id) # NoPost
        /\ FindPost(req[r].id).authorId # req[r].reqUser.user_ID

(* C18: of two register requests with the same email that have both     *)
(* ended, with no persistence call failed, one was answered 201 and the  *)
(* other 409, and exactly one User holds the email.                      *)
C18_RegisterRaceConflict ==
    \A r1, r2 \in Slots :
        (/\ r1 # r2
         /\ nfault = 0
         /\ Settled(r1, "register") /\ Settled(r2, "register")
         /\ req[r1].email = req[r2].email
         /\ req[r1].password # Missing /\ req[r2].password # Missing)
        => /\ {req[r1].resp.status, req[r2].resp.status} = {201, 409}
           /\ Cardinality({u \in users : u.email = req[r1].email}) = 1

(* C19: at the moment the later revision's login is answered 200, every *)
(* RefreshToken record the user had before the login, expired or not,   *)
(* is gone: the user's only record is the new one, and no refresh token *)
(* issued to the user before can be redeemed.                           *)
C19_LaterLoginCleansUp ==
    [][\A r \in Slots :
        (Answers(r, "laterLogin") /\ req'[r].resp.status = 200) =>
            /\ UserRecords(refreshTokens', req[r].foundUser.id) =
                    {[token |-> req[r].newRefresh, userId |-> req[r].foundUser.id,
                      expiresAt |-> req[r].expiresAt]}
            /\ \A t \in sent \ {req[r].newRefresh} :
                    t.user_ID = req[r].foundUser.id => ~Redeemable(t, refreshTokens', now)]_vars

(* the clock values of the model *)
ClockValues ==
    {j * (2 * RefreshTtl) + k : j \in 0..MaxJumps, k \in 0..MaxTicks}

(* /refreshToken run from its first line to its answer at time t on the *)
(* table store, nothing else running: the presented token is redeemed,  *)
(* its record deleted, and the record of the token signed at t created. *)
RefreshSucceeds(c, store, t) ==
    /\ Redeemable(c, store, t)
    /\ LET rest == {x \in store : x.token # c}
           newRefreshToken == JwtSign(c.user_ID, RefreshSecret, RefreshTtl, t)
       IN  \A x \in rest : x.token # newRefreshToken

(* C20: at the moment a Refresh is answered 200, the refresh token it   *)
(* returns has a stored record owned by the principal of the redeemed   *)
(* record, unexpired as long as the token is; and when no other request *)
(* is running, a Refresh that presents the returned token at any later  *)
(* time before the token's expiry, the table being as the first Refresh *)
(* left it, succeeds.                                                   *)
C20_RefreshedTokenRedeemable ==
    [][\A r \in Slots :
        (Answers(r, "refresh") /\ req'[r].resp.status = 200) =>
            LET c == req[r].newRefresh
            IN  /\ \E x \in refreshTokens' :
                        /\ x.token = c
                        /\ x.userId = req[r].storedToken.userId
                        /\ JwtVerify(c, RefreshSecret, now) => ~Expired(x, now)
                /\ (\A o \in Slots \ {r} : Finished(o)) =>
                        \A t \in ClockValues :
                            (t >= now /\ JwtVerify(c, RefreshSecret, t))
                            => RefreshSucceeds(c, refreshTokens', t)]_vars

(* the step in which a toggle-publish request of the post's author is   *)
(* answered, no persistence call having failed in it                     *)
AnswersAuthorToggle(r) ==
    /\ req[r].kind = "toggle"
    /\ InFlight(r)
    /\ req'[r].pc = "done"
    /\ nfault' = nfault
    /\ FindUserById(req[r].cookie.user_ID) # NoUser
    /\ FindPost(req[r].id) # NoPost
    /\ FindPost(req[r].id).authorId = req[r].cookie.user_ID

(* C22: PATCH /posts/:id/toggle-publish issued by the post's author is   *)
(* answered 200 and leaves the post with the negation of its stored      *)
(* published flag.                                                       *)
C22_ToggleNegatesFlag ==
    [][\A r \in Slots :
        AnswersAuthorToggle(r) =>
            /\ req'[r].resp.status = 200
            /\ \E p \in posts' :
                    /\ p.id = req[r].id
                    /\ p.published = ~FindPost(req[r].id).published]_vars

(* the step in which findUnique has returned a stored draft to the      *)
(* handler of GET /posts/:id and the request is answered                 *)
AnswersDraft(r) ==
    /\ Answers(r, "get")
    /\ nfault' = nfault
    /\ FindPost(req[r].id) # NoPost
    /\ ~FindPost(req[r].id).published

(* the request carries a token that jwt.verify accepts and whose        *)
(* user_ID is the author of the post it asks for                         *)
CarriesAuthorToken(r) ==
    /\ req[r].cookie.secret = JWT_SECRET(envSecret)
    /\ Seconds(now) < req[r].cookie.exp
    /\ req[r].cookie.user_ID = FindPost(req[r].id).authorId

(* C21: GET /posts/:id answers 200 with an unpublished post exactly to   *)
(* a request carrying a valid access token of the post's author; every   *)
(* other requester of an unpublished post is answered 404.               *)
C21_DraftOnlyForAuthor ==
    [][\A r \in Slots :
        AnswersDraft(r) =>
            /\ req'[r].resp.status = 200 <=> CarriesAuthorToken(r)
            /\ ~CarriesAuthorToken(r) => req'[r].resp.status = 404]_vars

(* C21 witness: drafts were asked for by their author, who was answered  *)
(* 200, and by the other user with a valid token, who was answered 404.  *)
C21_Witness ==
    \E r1, r2 \in Slots :
        /\ req[r1].kind = "get" /\ req[r1].pc = "done" /\ req[r1].resp.status = 200
        /\ FindPost(req[r1].id) # NoPost /\ ~FindPost(req[r1].id).published
        /\ req[r1].cookie.user_ID = FindPost(req[r1].id).authorId
        /\ req[r2].kind = "get" /\ req[r2].pc = "done" /\ req[r2].resp.status = 404
        /\ FindPost(req[r2].id) # NoPost /\ ~FindPost(req[r2].id).published
        /\ JwtVerify(req[r2].cookie, JWT_SECRET(envSecret), now)
        /\ req[r2].cookie.user_ID # FindPost(req[r2].id).authorId

(* every id listed in postIds is a stored post authored by the requester *)
AllOwn(r) ==
    \A i \in IdsOf(req[r].postIds) :
        FindPost(i) # NoPost /\ FindPost(i).authorId = req[r].reqUser.user_ID

(* C23: when every listed id is a post of the requester, the ownership   *)
(* check of PATCH /posts/bulk-update lets the request through and the    *)
(* action is answered 200; otherwise the request is answered 403 and no  *)
(* post is changed; and the action never changes or deletes a post of    *)
(* another author.                                                       *)
C23_BulkAllOrNothing ==
    [][\A r \in Slots :
        (req[r].kind = "bulk" /\ nfault' = nfault) =>
            /\ (req[r].pc = "b_find" /\ req'[r].pc # "b_find") =>
                    IF AllOwn(r)
                    THEN req'[r].pc = "b_apply"
                    ELSE req'[r].resp.status = 403 /\ posts' = posts
            /\ (req[r].pc = "b_apply" /\ req'[r].pc # "b_apply") =>
                    /\ req'[r].resp.status = 200
                    /\ \A p \in posts :
                            p.authorId # req[r].reqUser.user_ID => p \in posts']_vars

(* C24: the duplicate route, having found the original and a free title *)
(* for its author, creates exactly one new post, a draft of the          *)
(* requester with the content of the original and the generated title,   *)
(* which no other stored post holds, and answers 201.                    *)
C24_DuplicateCreatesCopy ==
    [][\A r \in Slots :
        (/\ req[r].kind = "duplicate" /\ req[r].pc = "d_create"
         /\ req'[r].pc # "d_create" /\ nfault' = nfault)
        => /\ req'[r].resp.status = 201
           /\ \E p \in posts' \ posts :
                /\ posts' = posts \cup {p}
                /\ p.title = CopyTitle(req[r].title, req[r].counter)
                /\ \A o \in posts : o.title # p.title
                /\ p.content = req[r].content
                /\ ~p.published
                /\ p.authorId = req[r].reqUser.user_ID]_vars

(* C25: the refresh token that a login or a Refresh answered 200 returns *)
(* is no string delivered before, and the token a Refresh returns is not *)
(* the token it consumed.                                                *)
C25_MintedTokenIsNew ==
    [][\A r \in Slots :
        ((Answers(r, "login") \/ Answers(r, "refresh")) /\ req'[r].resp.status = 200)
        => /\ req'[r].resp.refreshToken \notin sent
           /\ req[r].kind = "refresh" => req'[r].resp.refreshToken # req[r].cookie]_vars

(* the step in which a login or Refresh request ends with a 400, 401 or  *)
(* 403, at its arrival or later                                          *)
Refuses(r) ==
    /\ req'[r] # req[r]
    /\ req'[r].kind \in {"login", "refresh"}
    /\ req'[r].pc = "done"
    /\ req'[r].resp.status \in {400, 401, 403}

(* C26: the step that answers a login or Refresh with 400, 401 or 403    *)
(* leaves table RefreshToken unchanged, and the request has made no      *)
(* write before: it is answered at its arrival or at its lookups, and   *)
(* the lookups write nothing.                                            *)
C26_RefusedLeavesTokens ==
    [][\A r \in Slots :
        /\ Refuses(r) =>
                /\ refreshTokens' = refreshTokens
                /\ \/ Finished(r)
                   \/ req[r].pc \in {"l_find", "f_find", "f_check"}
        /\ (req[r].pc \in {"l_find", "f_find", "f_check"} /\ req'[r] # req[r])
                => refreshTokens' = refreshTokens]_vars

(* C26 witness: a login with a wrong password was answered 401 and the   *)
(* targeted user holds a stored refresh token.                           *)
C26_Witness ==
    \E r \in Slots :
        /\ req[r].kind = "login" /\ req[r].pc = "done"
        /\ req[r].resp.status = 401 /\ req[r].found
        /\ \E x \in refreshTokens : x.userId = FindUserByEmail(req[r].email).id

(* the principal a login, Refresh or logout request acts for *)
Principal(r) ==
    IF req[r].kind = "login"
    THEN FindUserByEmail(req[r].email).id
    ELSE req[r].cookie.user_ID

(* C27: every RefreshToken record that a step of a login, Refresh or     *)
(* logout request creates, deletes or changes is a record of the         *)
(* principal of that request.                                            *)
C27_OtherPrincipalsUntouched ==
    [][\A r \in Slots :
        (/\ req[r].kind \in {"login", "refresh", "logout"}
         /\ InFlight(r) /\ req'[r] # req[r])
        => \A x \in (refreshTokens \ refreshTokens') \cup (refreshTokens' \ refreshTokens) :
                x.userId = Principal(r)]_vars

(* C27 witness: a login of one user has been answered 200 while the      *)
(* other user holds a stored refresh token.                              *)
C27_Witness ==
    \E r \in Slots :
        /\ req[r].kind = "login" /\ req[r].pc = "done" /\ req[r].resp.status = 200
        /\ \E x \in refreshTokens : x.userId # FindUserByEmail(req[r].email).id
        /\ \E x \in refreshTokens : x.userId = FindUserByEmail(req[r].email).id

(* C28: every stored RefreshToken record holds a token that a login or   *)
(* a Refresh signed and delivered, and the record's userId is the        *)
(* user_ID signed into that token.                                       *)
C28_RecordOwnedBySignedUser ==
    \A x \in refreshTokens :
        /\ x.token \in sent
        /\ x.token.secret = RefreshSecret
        /\ x.userId = x.token.user_ID

(* C28 witness: both users hold a stored record, one of them created by  *)
(* a Refresh.                                                            *)
C28_Witness ==
    /\ \A u \in users : \E x \in refreshTokens : x.userId = u.id
    /\ consumed # {}
    /\ \E r \in Slots : req[r].kind = "refresh" /\ req[r].pc = "done"
                        /\ req[r].resp.status = 200
                        /\ FindToken(req[r].resp.refreshToken) # NoRecord

(* C29: when a logout that presented token T has been answered 200 and   *)
(* a Refresh that presented T has been answered 200 as well, the store   *)
(* holds neither the record of T nor the record of the token the         *)
(* Refresh returned.                                                     *)
C29_LogoutEndsRotatedSession ==
    \A l, f \in Slots :
        (/\ req[l].kind = "logout" /\ req[l].pc = "done" /\ req[l].resp.status = 200
         /\ req[f].kind = "refresh" /\ req[f].pc = "done" /\ req[f].resp.status = 200
         /\ req[f].cookie = req[l].cookie)
        => /\ FindToken(req[l].cookie) = NoRecord
           /\ FindToken(req[f].resp.refreshToken) = NoRecord

====
